---- MODULE Spec2Model ----
(***************************************************************************)
(* State-machine model of the Cat Court session orchestrator               *)
(* (src/App.tsx): startup image loading (loadImages), the judgment flow    *)
(* (handleJudgeClick), appeal, accept and Reset images.                    *)
(*                                                                         *)
(* Texts are sequences of characters so that String.prototype.trim is      *)
(* computed, not assumed.  JavaScript null is the record Null for objects  *)
(* (verdict, cache record) and the payload NullImage for image fields.     *)
(* One action is one run-to-completion handler or one continuation of an   *)
(* async function after an await (promise reactions are microtasks, so no  *)
(* other event runs between a settlement and its continuation).            *)
(*                                                                         *)
(* The image cache is one IndexedDB entry (App.tsx:39, 68).  Operations on *)
(* it are served in the order they were issued, so storeOps is a queue and *)
(* only its head settles.  Operations a page leaves queued when it reloads *)
(* may each still commit or be aborted.                                    *)
(***************************************************************************)
EXTENDS Integers, Sequences, FiniteSets, TLC

\* ---------------------------------------------------------------- bounds
\* cap on the number of appealed rounds kept in history
MaxHistory == 2
\* cap on Reset-images cache clears outstanding at once
MaxClears == 1

\* ------------------------------------------------------------ data model
Null == [null |-> TRUE]
NullImage == "null"
\* loadImagesFromDB has not settled yet / has rejected
NotLoaded == [pending |-> TRUE]
Threw == [threw |-> TRUE]

CharacterType == {"JUDGE", "CAT_DEBATER", "DOG_DEBATER"}

\* the payload the generation client returns for each prompt
GeneratedImage == [t \in CharacterType |->
                     CASE t = "JUDGE"       -> "judgeNew"
                       [] t = "CAT_DEBATER" -> "catNew"
                       [] t = "DOG_DEBATER" -> "dogNew"]

NoImages == [judge |-> NullImage, catDebater |-> NullImage, dogDebater |-> NullImage]

\* records the object store may hold when the page starts
StoredRecords ==
  { [judge |-> "judgeOld", catDebater |-> "catOld", dogDebater |-> "dogOld"],
    [judge |-> "judgeOld", catDebater |-> NullImage, dogDebater |-> ""] }

\* JavaScript truthiness of an image field (string | null)
Truthy(img) == img # NullImage /\ img # ""

\* cached && cached.judge && cached.catDebater && cached.dogDebater
FullyPopulatedMut(cached) == cached # Null /\ Truthy(cached.judge)

FullyPopulated(cached) ==
  /\ cached # Null
  /\ Truthy(cached.judge)
  /\ Truthy(cached.catDebater)
  /\ Truthy(cached.dogDebater)

\* texts the users type
Whitespace == {" "}
CatTexts == { <<>>, <<" ">>, <<"c">> }
DogTexts == { <<>>, <<" ", "d">> }
Names == { <<>>, <<"n">> }

Verdicts ==
  { [catPercentage |-> 60, dogPercentage |-> 40, reasoning |-> "r1", solution |-> "s1"],
    [catPercentage |-> 100, dogPercentage |-> 50, reasoning |-> "r2", solution |-> "s2"] }

\* String.prototype.trim
RECURSIVE TrimStart(_)
TrimStart(s) ==
  IF s = <<>> THEN <<>>
  ELSE IF Head(s) \in Whitespace THEN TrimStart(Tail(s)) ELSE s

RECURSIVE TrimEnd(_)
TrimEnd(s) ==
  IF s = <<>> THEN <<>>
  ELSE IF s[Len(s)] \in Whitespace THEN TrimEnd(SubSeq(s, 1, Len(s) - 1)) ELSE s

trim(s) == TrimEnd(TrimStart(s))

\* name || default
DefaultCatName == <<"C">>
DefaultDogName == <<"D">>
OrDefault(name, dflt) == IF name = <<>> THEN dflt ELSE name

\* ----------------------------------------------------------------- state
VARIABLES
  images,         \* useState CharacterImages
  loadingImages,  \* useState boolean
  catName, dogName,
  catArg, dogArg,
  verdict,        \* Verdict | Null
  isJudging,
  history,        \* sequence of CaseRound
  pc,             \* position of loadImages: "load", "generate", "save", "done"
  cached,         \* what await loadImagesFromDB produced: NotLoaded, Threw, Null or a record
  gen,            \* per character type: status of its generateCharacterImage call
  genCalls,       \* per character type: calls made to the generation client
  saveCalls,      \* calls made to saveImagesToDB
  saveOutcome,    \* "none", "pending", "saved", "failed"
  db,             \* object-store entry under STORAGE_KEY: record | Null
  requests,       \* getJudgment calls in flight
  alertShown,     \* output of the last step: alert() was called
  clears,         \* clearImagesFromDB calls in flight (Reset images)
  storeOps,       \* object-store operations in flight, in the order they were issued
  judged,         \* argument texts of the request that produced the current verdict, or Null
  afterReset,     \* this process was started by the reload of a Reset images whose clear succeeded
  event           \* label of the last step: the session handler that ran, "reload",
                  \* "clearFailed" or "other"

sessionVars == <<catName, dogName, catArg, dogArg, verdict, isJudging, history>>
imageVars == <<images, loadingImages>>
loaderVars == <<pc, cached, gen, genCalls, saveCalls, saveOutcome>>
auxVars == <<judged, afterReset>>
vars == <<images, loadingImages, catName, dogName, catArg, dogArg, verdict,
          isJudging, history, pc, cached, gen, genCalls, saveCalls,
          saveOutcome, db, requests, alertShown, clears, storeOps, judged,
          afterReset, event>>

\* state of a freshly mounted App whose effect has called loadImages,
\* which is suspended at await loadImagesFromDB
Mounted ==
  /\ images = NoImages
  /\ loadingImages = TRUE
  /\ catName = <<>> /\ dogName = <<>>
  /\ catArg = <<>> /\ dogArg = <<>>
  /\ verdict = Null
  /\ isJudging = FALSE
  /\ history = <<>>
  /\ pc = "load"
  /\ cached = NotLoaded
  /\ gen = [t \in CharacterType |-> "idle"]
  /\ genCalls = [t \in CharacterType |-> 0]
  /\ saveCalls = 0
  /\ saveOutcome = "none"
  /\ requests = <<>>
  /\ alertShown = FALSE
  /\ clears = 0
  /\ storeOps = <<"load">>
  /\ judged = Null

Init ==
  /\ Mounted
  /\ afterReset = FALSE
  /\ db \in StoredRecords \cup {Null}
  /\ event = "other"

\* --------------------------------------------------- startup: loadImages
\* step 2 up to the await of Promise.all: three generation calls are issued
StartGeneration ==
  /\ loadingImages' = TRUE
  /\ gen' = [t \in CharacterType |-> "pending"]
  /\ genCalls' = [t \in CharacterType |-> genCalls[t] + 1]
  /\ pc' = "generate"

\* the continuation after the load as it would be without the early return
LoadReturnsMut ==
  /\ pc = "load"
  /\ cached' = db
  /\ event' = "other"
  /\ StartGeneration
  /\ images' = IF FullyPopulated(cached') THEN cached' ELSE images
  /\ UNCHANGED <<saveCalls, saveOutcome, db, requests, clears>>
  /\ UNCHANGED sessionVars
  /\ alertShown' = FALSE
  /\ storeOps' = Tail(storeOps)
  /\ UNCHANGED auxVars

\* loadImagesFromDB resolves with the stored entry
LoadReturns ==
  /\ pc = "load"
  /\ cached' = db
  /\ event' = "other"
  /\ IF FullyPopulated(cached')
       THEN /\ images' = cached'
            /\ loadingImages' = FALSE
            /\ pc' = "done"
            /\ UNCHANGED <<gen, genCalls>>
       ELSE /\ StartGeneration
            /\ UNCHANGED images
  /\ UNCHANGED <<saveCalls, saveOutcome, db, requests, clears>>
  /\ UNCHANGED sessionVars
  /\ alertShown' = FALSE
  /\ storeOps' = Tail(storeOps)
  /\ UNCHANGED auxVars

\* continuation after a storage error, as it would be without the try/catch
LoadThrowsMut ==
  /\ pc = "load"
  /\ cached' = Threw
  /\ event' = "other"
  /\ pc' = "done"
  /\ UNCHANGED <<gen, genCalls, images, loadingImages>>
  /\ UNCHANGED <<saveCalls, saveOutcome, db, requests, clears>>
  /\ UNCHANGED sessionVars
  /\ alertShown' = FALSE
  /\ storeOps' = Tail(storeOps)
  /\ UNCHANGED auxVars

\* loadImagesFromDB rejects: caught, warned, falls through to generation
LoadThrows ==
  /\ pc = "load"
  /\ cached' = Threw
  /\ event' = "other"
  /\ StartGeneration
  /\ UNCHANGED images
  /\ UNCHANGED <<saveCalls, saveOutcome, db, requests, clears>>
  /\ UNCHANGED sessionVars
  /\ alertShown' = FALSE
  /\ storeOps' = Tail(storeOps)
  /\ UNCHANGED auxVars

\* const newImages = { judge: judgeImg, catDebater: catImg, dogDebater: dogImg }
NewImages ==
  [judge |-> GeneratedImage["JUDGE"],
   catDebater |-> GeneratedImage["CAT_DEBATER"],
   dogDebater |-> GeneratedImage["DOG_DEBATER"]]

\* one generation call resolves; when it is the last one Promise.all
\* resolves and loadImages continues to setImages and saveImagesToDB
GenResolves(t) ==
  /\ pc = "generate"
  /\ gen[t] = "pending"
  /\ gen' = [gen EXCEPT ![t] = "resolved"]
  /\ event' = "other"
  /\ IF \A u \in CharacterType \ {t} : gen[u] = "resolved"
       THEN /\ images' = NewImages
            /\ saveCalls' = saveCalls + 1
            /\ saveOutcome' = "pending"
            /\ storeOps' = Append(storeOps, "save")
            /\ pc' = "save"
       ELSE UNCHANGED <<images, saveCalls, saveOutcome, storeOps, pc>>
  /\ UNCHANGED <<loadingImages, cached, genCalls, db, requests, clears>>
  /\ UNCHANGED sessionVars
  /\ alertShown' = FALSE
  /\ UNCHANGED auxVars

\* a rejection handled as by Promise.allSettled: the images that did resolve are set
GenRejectsPartial(t) ==
  /\ pc = "generate"
  /\ gen[t] = "pending"
  /\ gen' = [gen EXCEPT ![t] = "rejected"]
  /\ event' = "other"
  /\ images' = [judge |-> IF gen["JUDGE"] = "resolved"
                             THEN GeneratedImage["JUDGE"] ELSE NullImage,
                 catDebater |-> IF gen["CAT_DEBATER"] = "resolved"
                                  THEN GeneratedImage["CAT_DEBATER"] ELSE NullImage,
                 dogDebater |-> IF gen["DOG_DEBATER"] = "resolved"
                                  THEN GeneratedImage["DOG_DEBATER"] ELSE NullImage]
  /\ loadingImages' = FALSE
  /\ pc' = "done"
  /\ UNCHANGED <<cached, genCalls, saveCalls, saveOutcome, db, requests, clears>>
  /\ UNCHANGED sessionVars
  /\ alertShown' = FALSE
  /\ UNCHANGED <<storeOps, auxVars>>

\* one generation call rejects: Promise.all rejects at once, the catch logs
\* and finally ends loading; the other calls' results are discarded
GenRejects(t) ==
  /\ pc = "generate"
  /\ gen[t] = "pending"
  /\ gen' = [gen EXCEPT ![t] = "rejected"]
  /\ event' = "other"
  /\ loadingImages' = FALSE
  /\ pc' = "done"
  /\ UNCHANGED <<images, cached, genCalls, saveCalls, saveOutcome, db,
                 requests, clears>>
  /\ UNCHANGED sessionVars
  /\ alertShown' = FALSE
  /\ UNCHANGED <<storeOps, auxVars>>

\* a generation call settles after Promise.all has already rejected: its
\* result is discarded
GenSettlesLate(t) ==
  /\ pc = "done"
  /\ gen[t] = "pending"
  /\ \E outcome \in {"resolved", "rejected"} : gen' = [gen EXCEPT ![t] = outcome]
  /\ event' = "other"
  /\ alertShown' = FALSE
  /\ UNCHANGED <<images, loadingImages, pc, cached, genCalls, saveCalls, saveOutcome,
                 db, requests, clears, storeOps>>
  /\ UNCHANGED <<sessionVars, auxVars>>

\* saveImagesToDB settles successfully: finally ends loading
SaveSucceeds ==
  /\ pc = "save"
  /\ db' = images
  /\ saveOutcome' = "saved"
  /\ event' = "other"
  /\ loadingImages' = FALSE
  /\ pc' = "done"
  /\ UNCHANGED <<images, cached, gen, genCalls, saveCalls, requests,
                 clears>>
  /\ UNCHANGED sessionVars
  /\ alertShown' = FALSE
  /\ Head(storeOps) = "save"
  /\ storeOps' = Tail(storeOps)
  /\ UNCHANGED auxVars

\* the save fails, with the images rolled back and loading left on
SaveFailsMut ==
  /\ pc = "save"
  /\ saveOutcome' = "failed"
  /\ event' = "other"
  /\ images' = NoImages
  /\ pc' = "done"
  /\ UNCHANGED <<loadingImages, db, cached, gen, genCalls, saveCalls,
                 requests, clears>>
  /\ UNCHANGED sessionVars
  /\ alertShown' = FALSE
  /\ Head(storeOps) = "save"
  /\ storeOps' = Tail(storeOps)
  /\ UNCHANGED auxVars

\* saveImagesToDB fails: the store is not written; whether the failure is
\* swallowed by the service or caught at line 71, finally ends loading
SaveFails ==
  /\ pc = "save"
  /\ saveOutcome' = "failed"
  /\ event' = "other"
  /\ loadingImages' = FALSE
  /\ pc' = "done"
  /\ UNCHANGED <<images, db, cached, gen, genCalls, saveCalls, requests,
                 clears>>
  /\ UNCHANGED sessionVars
  /\ alertShown' = FALSE
  /\ Head(storeOps) = "save"
  /\ storeOps' = Tail(storeOps)
  /\ UNCHANGED auxVars

\* ------------------------------------------------------- rendered controls
\* textarea disabled={isJudging}
TextareaEnabledWhileVerdict == ~isJudging

\* textarea disabled={isJudging || !!verdict}
TextareaEnabledMut == TRUE

TextareaEnabled == ~(isJudging \/ verdict # Null)

\* the judge button rendered whether or not a verdict is shown
JudgeButtonClickableWithVerdict == ~(isJudging \/ catArg = <<>> \/ dogArg = <<>>)

\* the judge button with disabled={!catArg || !dogArg}
JudgeButtonClickableWhileJudging ==
  /\ verdict = Null
  /\ ~(catArg = <<>> \/ dogArg = <<>>)

\* {!verdict && <button disabled={isJudging || !catArg || !dogArg}>}
JudgeButtonClickable ==
  /\ verdict = Null
  /\ ~(isJudging \/ catArg = <<>> \/ dogArg = <<>>)

\* {verdict && ( ... accept / appeal buttons ... )}
VerdictControlsRenderedMut == TRUE

VerdictControlsRendered == verdict # Null

\* ------------------------------------------------------------ text inputs
TypeCatArg ==
  /\ TextareaEnabled
  /\ \E t \in CatTexts : catArg' = t
  /\ event' = "other"
  /\ UNCHANGED <<catName, dogName, dogArg, verdict, isJudging, history>>
  /\ UNCHANGED <<imageVars, loaderVars, db, requests, clears>>
  /\ alertShown' = FALSE
  /\ UNCHANGED <<storeOps, auxVars>>

TypeDogArg ==
  /\ TextareaEnabled
  /\ \E t \in DogTexts : dogArg' = t
  /\ event' = "other"
  /\ UNCHANGED <<catName, dogName, catArg, verdict, isJudging, history>>
  /\ UNCHANGED <<imageVars, loaderVars, db, requests, clears>>
  /\ alertShown' = FALSE
  /\ UNCHANGED <<storeOps, auxVars>>

SetCatName ==
  /\ \E n \in Names : catName' = n
  /\ event' = "other"
  /\ UNCHANGED <<dogName, catArg, dogArg, verdict, isJudging, history>>
  /\ UNCHANGED <<imageVars, loaderVars, db, requests, clears>>
  /\ alertShown' = FALSE
  /\ UNCHANGED <<storeOps, auxVars>>

SetDogName ==
  /\ \E n \in Names : dogName' = n
  /\ event' = "other"
  /\ UNCHANGED <<catName, catArg, dogArg, verdict, isJudging, history>>
  /\ UNCHANGED <<imageVars, loaderVars, db, requests, clears>>
  /\ alertShown' = FALSE
  /\ UNCHANGED <<storeOps, auxVars>>

\* --------------------------------------------------------------- judgment
\* handleJudgeClick up to the await of getJudgment, without the blank guard
handleJudgeClickMut ==
  /\ event' = "judgeClick"
  /\ isJudging' = TRUE
  /\ verdict' = Null
  /\ alertShown' = FALSE
  /\ requests' = Append(requests,
       [catArg |-> catArg, dogArg |-> dogArg,
        catName |-> OrDefault(catName, DefaultCatName),
        dogName |-> OrDefault(dogName, DefaultDogName),
        history |-> history])
  /\ UNCHANGED <<catName, dogName, catArg, dogArg, history>>
  /\ UNCHANGED judged

\* handleJudgeClick calling getJudgment with an empty history
handleJudgeClickNoHistory ==
  /\ event' = "judgeClick"
  /\ IF trim(catArg) = <<>> \/ trim(dogArg) = <<>>
       THEN UNCHANGED <<verdict, isJudging, requests>>
       ELSE /\ isJudging' = TRUE
            /\ verdict' = Null
            /\ requests' = Append(requests,
                 [catArg |-> catArg, dogArg |-> dogArg,
                  catName |-> OrDefault(catName, DefaultCatName),
                  dogName |-> OrDefault(dogName, DefaultDogName),
                  history |-> <<>>])
  /\ UNCHANGED <<catName, dogName, catArg, dogArg, history>>
  /\ alertShown' = FALSE
  /\ UNCHANGED judged

\* handleJudgeClick up to the await of getJudgment
handleJudgeClick ==
  /\ event' = "judgeClick"
  /\ IF trim(catArg) = <<>> \/ trim(dogArg) = <<>>
       THEN UNCHANGED <<verdict, isJudging, requests>>
       ELSE /\ isJudging' = TRUE
            /\ verdict' = Null
            /\ requests' = Append(requests,
                 [catArg |-> catArg, dogArg |-> dogArg,
                  catName |-> OrDefault(catName, DefaultCatName),
                  dogName |-> OrDefault(dogName, DefaultDogName),
                  history |-> history])
  /\ UNCHANGED <<catName, dogName, catArg, dogArg, history>>
  /\ alertShown' = FALSE
  /\ UNCHANGED judged

JudgeClick ==
  /\ JudgeButtonClickable
  /\ handleJudgeClick
  /\ UNCHANGED <<imageVars, loaderVars, db, clears>>
  /\ UNCHANGED <<storeOps, afterReset>>

\* getJudgment resolves: setVerdict(result), finally setIsJudging(false)
JudgmentResolves ==
  /\ requests # <<>>
  /\ \E v \in Verdicts : verdict' = v
  /\ isJudging' = FALSE
  /\ requests' = Tail(requests)
  /\ event' = "judgmentResolved"
  /\ UNCHANGED <<catName, dogName, catArg, dogArg, history>>
  /\ UNCHANGED <<imageVars, loaderVars, db, clears>>
  /\ alertShown' = FALSE
  /\ judged' = [catArg |-> Head(requests).catArg, dogArg |-> Head(requests).dogArg]
  /\ UNCHANGED <<storeOps, afterReset>>

\* getJudgment rejects, with setIsJudging(false) left out of the failure path
JudgmentRejectsMut ==
  /\ requests # <<>>
  /\ alertShown' = TRUE
  /\ requests' = Tail(requests)
  /\ event' = "judgmentRejected"
  /\ UNCHANGED <<catName, dogName, catArg, dogArg, history, verdict, isJudging>>
  /\ UNCHANGED <<imageVars, loaderVars, db, clears>>
  /\ UNCHANGED <<storeOps, auxVars>>

\* getJudgment rejects and the call is issued again
JudgmentRejectsRetry ==
  /\ requests # <<>>
  /\ alertShown' = TRUE
  /\ requests' = Append(Tail(requests), Head(requests))
  /\ event' = "judgmentRejected"
  /\ UNCHANGED <<catName, dogName, catArg, dogArg, history, verdict, isJudging>>
  /\ UNCHANGED <<imageVars, loaderVars, db, clears>>
  /\ UNCHANGED <<storeOps, auxVars>>

\* getJudgment rejects: alert, finally setIsJudging(false)
JudgmentRejects ==
  /\ requests # <<>>
  /\ alertShown' = TRUE
  /\ isJudging' = FALSE
  /\ requests' = Tail(requests)
  /\ event' = "judgmentRejected"
  /\ UNCHANGED <<catName, dogName, catArg, dogArg, history, verdict>>
  /\ UNCHANGED <<imageVars, loaderVars, db, clears>>
  /\ UNCHANGED <<storeOps, auxVars>>

\* ------------------------------------------------------- appeal and accept
\* handleAppeal keeping only the new round
handleAppealMut ==
  /\ event' = "appeal"
  /\ IF verdict = Null
       THEN UNCHANGED <<history, verdict, catArg, dogArg, judged>>
       ELSE /\ history' = <<[roundNumber |-> Len(history) + 1, catArg |-> catArg,
                             dogArg |-> dogArg, verdict |-> verdict]>>
            /\ verdict' = Null
            /\ catArg' = <<>>
            /\ dogArg' = <<>>
            /\ judged' = Null
  /\ UNCHANGED <<catName, dogName, isJudging>>

\* handleAppeal with roundNumber: history.length
handleAppealZeroBased ==
  /\ event' = "appeal"
  /\ IF verdict = Null
       THEN UNCHANGED <<history, verdict, catArg, dogArg, judged>>
       ELSE /\ history' = Append(history,
                 [roundNumber |-> Len(history), catArg |-> catArg,
                  dogArg |-> dogArg, verdict |-> verdict])
            /\ verdict' = Null
            /\ catArg' = <<>>
            /\ dogArg' = <<>>
            /\ judged' = Null
  /\ UNCHANGED <<catName, dogName, isJudging>>

handleAppeal ==
  /\ event' = "appeal"
  /\ IF verdict = Null
       THEN UNCHANGED <<history, verdict, catArg, dogArg, judged>>
       ELSE /\ history' = Append(history,
                 [roundNumber |-> Len(history) + 1, catArg |-> catArg,
                  dogArg |-> dogArg, verdict |-> verdict])
            /\ verdict' = Null
            /\ catArg' = <<>>
            /\ dogArg' = <<>>
            /\ judged' = Null
  /\ UNCHANGED <<catName, dogName, isJudging>>

AppealClick ==
  /\ VerdictControlsRendered
  /\ Len(history) < MaxHistory
  /\ handleAppeal
  /\ UNCHANGED <<imageVars, loaderVars, db, requests, clears>>
  /\ alertShown' = FALSE
  /\ UNCHANGED <<storeOps, afterReset>>

\* handleAcceptVerdict without setHistory([])
handleAcceptVerdictMut ==
  /\ event' = "accept"
  /\ verdict' = Null
  /\ catArg' = <<>>
  /\ dogArg' = <<>>
  /\ catName' = <<>>
  /\ dogName' = <<>>
  /\ UNCHANGED <<isJudging, history>>
  /\ judged' = Null

handleAcceptVerdict ==
  /\ event' = "accept"
  /\ verdict' = Null
  /\ catArg' = <<>>
  /\ dogArg' = <<>>
  /\ history' = <<>>
  /\ catName' = <<>>
  /\ dogName' = <<>>
  /\ UNCHANGED isJudging
  /\ judged' = Null

AcceptClick ==
  /\ VerdictControlsRendered
  /\ handleAcceptVerdict
  /\ UNCHANGED <<imageVars, loaderVars, db, requests, clears>>
  /\ alertShown' = FALSE
  /\ UNCHANGED <<storeOps, afterReset>>

\* ----------------------------------------------------------- reset images
\* window.location.reload(): a new process mounts App again
Reload ==
  /\ images' = NoImages
  /\ loadingImages' = TRUE
  /\ catName' = <<>> /\ dogName' = <<>>
  /\ catArg' = <<>> /\ dogArg' = <<>>
  /\ verdict' = Null
  /\ isJudging' = FALSE
  /\ history' = <<>>
  /\ pc' = "load"
  /\ cached' = NotLoaded
  /\ gen' = [t \in CharacterType |-> "idle"]
  /\ genCalls' = [t \in CharacterType |-> 0]
  /\ saveCalls' = 0
  /\ saveOutcome' = "none"
  /\ requests' = <<>>
  /\ alertShown' = FALSE
  /\ clears' = 0
  /\ storeOps' = <<"load">>
  /\ judged' = Null

\* handleResetImages up to the await of clearImagesFromDB
ResetClick ==
  /\ \E confirmed \in BOOLEAN :
       IF confirmed
         THEN /\ clears < MaxClears
              /\ clears' = clears + 1
              /\ storeOps' = Append(storeOps, "clear")
              /\ event' = "other"
         ELSE /\ event' = "other"
              /\ UNCHANGED <<clears, storeOps>>
  /\ UNCHANGED <<sessionVars, imageVars, loaderVars, db, requests>>
  /\ alertShown' = FALSE
  /\ UNCHANGED auxVars

\* the entries the store can hold once the operations still queued by a
\* page that is unloading have each either committed or been aborted,
\* in the order they were issued
RECURSIVE Leftover(_, _)
Leftover(ops, entry) ==
  IF ops = <<>> THEN {entry}
  ELSE LET applied == CASE Head(ops) = "save"  -> NewImages
                        [] Head(ops) = "clear" -> Null
                        [] OTHER               -> entry
       IN Leftover(Tail(ops), entry) \cup Leftover(Tail(ops), applied)

\* clearImagesFromDB deleted the entry; handleResetImages reloads
ClearSucceeds ==
  /\ clears > 0
  /\ Head(storeOps) = "clear"
  /\ db' \in Leftover(Tail(storeOps), Null)
  /\ Reload
  /\ afterReset' = TRUE
  /\ event' = "reload"

\* clearImagesFromDB resolves even when the delete failed (the failure is
\* logged and swallowed by the storage service)
ClearFailureSwallowedMut == FALSE

ClearFailureSwallowed == TRUE

\* clearImagesFromDB failed to delete the entry: when the service swallows
\* the failure handleResetImages reloads, when it rejects the await throws
\* and handleResetImages ends without reloading
ClearFails ==
  /\ clears > 0
  /\ Head(storeOps) = "clear"
  /\ event' = "clearFailed"
  /\ IF ClearFailureSwallowed
       THEN /\ db' \in Leftover(Tail(storeOps), db)
            /\ Reload
            /\ afterReset' = FALSE
       ELSE /\ clears' = clears - 1
            /\ storeOps' = Tail(storeOps)
            /\ alertShown' = FALSE
            /\ UNCHANGED <<sessionVars, imageVars, loaderVars, db, requests, auxVars>>

\* ---------------------------------------------------------- specification
Next ==
  \/ LoadReturns
  \/ LoadThrows
  \/ \E t \in CharacterType : GenResolves(t)
  \/ \E t \in CharacterType : GenRejects(t)
  \/ \E t \in CharacterType : GenSettlesLate(t)
  \/ SaveSucceeds
  \/ SaveFails
  \/ TypeCatArg
  \/ TypeDogArg
  \/ SetCatName
  \/ SetDogName
  \/ JudgeClick
  \/ JudgmentResolves
  \/ JudgmentRejects
  \/ AppealClick
  \/ AcceptClick
  \/ ResetClick
  \/ ClearSucceeds
  \/ ClearFails

Spec == Init /\ [][Next]_vars

TypeOK ==
  /\ isJudging \in BOOLEAN
  /\ loadingImages \in BOOLEAN
  /\ Len(history) <= MaxHistory

\* ------------------------------------------------------ session states
Ready == ~isJudging /\ verdict = Null
Judging == isJudging /\ verdict = Null
VerdictShown == ~isJudging /\ verdict # Null

NonEmpty(text) == text # <<>>
NonBlank(text) == \E i \in 1..Len(text) : text[i] \notin Whitespace

\* ------------------------------------------------------------------ C1
\* C1 as stated: a submit from Ready with two non-empty argument texts
\* moves the session to Judging.
C1_AsStated ==
  [][(event' = "judgeClick" /\ Ready /\ NonEmpty(catArg) /\ NonEmpty(dogArg))
       => (isJudging' /\ verdict' = Null)]_vars

C1_Step ==
  /\ (event' = "judgeClick" /\ NonBlank(catArg) /\ NonBlank(dogArg))
       => /\ Ready
          /\ isJudging' /\ verdict' = Null
          /\ Len(requests') = Len(requests) + 1
  /\ event' \in {"judgmentResolved", "judgmentRejected"}
       => /\ Judging
          /\ ~isJudging'
          /\ \/ verdict' # Null /\ ~alertShown'
             \/ verdict' = Null /\ alertShown'
  /\ ((verdict = Null /\ verdict' # Null) \/ alertShown')
       => Judging

\* C1 (amended): a submit from Ready with two argument texts that are
\* non-blank after trimming moves the session to Judging (isJudging true,
\* verdict none, one request issued); the completion of the judgment call
\* leaves Judging for exactly one of Verdict-shown (verdict set, no alert) or
\* Ready-with-alert (verdict none, alert raised); a verdict or an alert
\* appears only out of Judging.
C1_SubmitThenExactlyOneOutcome == [][C1_Step]_vars

C1_Witness ==
  /\ event = "judgmentRejected"
  /\ alertShown /\ verdict = Null /\ ~isJudging
  /\ catArg = <<"c">> /\ dogArg = <<" ", "d">>

\* ------------------------------------------------------------------ C2
\* C2: an appeal taken with a verdict present appends exactly one CaseRound
\* at the end of history (earlier rounds unchanged), the round carries the
\* verdict and argument texts that were current, the current arguments and
\* verdict are cleared and the display names are unchanged.
C2_AppealAppendsOneRound ==
  [][(event' = "appeal" /\ verdict # Null)
       => /\ Len(history') = Len(history) + 1
          /\ \A i \in 1..Len(history) : history'[i] = history[i]
          /\ history'[Len(history')].verdict = verdict
          /\ history'[Len(history')].catArg = catArg
          /\ history'[Len(history')].dogArg = dogArg
          /\ catArg' = <<>> /\ dogArg' = <<>> /\ verdict' = Null
          /\ catName' = catName /\ dogName' = dogName]_vars

C2_Witness ==
  /\ event = "appeal"
  /\ Len(history) = 2
  /\ history[1].verdict # history[2].verdict
  /\ history[2].catArg = <<"c">> /\ history[2].dogArg = <<" ", "d">>
  /\ catArg = <<>> /\ dogArg = <<>> /\ verdict = Null
  /\ catName # <<>>

\* ------------------------------------------------------------------ C3
\* C3: an appeal or an accept happens only in Verdict-shown; in no state
\* without a verdict (Loading, Ready, Judging) does either of them run.
C3_AppealAcceptOnlyFromVerdictShown ==
  [][event' \in {"appeal", "accept"} => VerdictShown]_vars

C3_Witness ==
  /\ Judging
  /\ loadingImages
  /\ Len(history) = 1
  /\ requests # <<>>

\* ------------------------------------------------------------------ C4
\* C4: accept leaves history empty, both names empty, both arguments empty,
\* the verdict none and the session not judging, whatever the history was;
\* the images and the loading flag are unchanged.
C4_AcceptReturnsToInitialReady ==
  [][event' = "accept"
       => /\ history' = <<>>
          /\ catName' = <<>> /\ dogName' = <<>>
          /\ catArg' = <<>> /\ dogArg' = <<>>
          /\ verdict' = Null /\ ~isJudging'
          /\ images' = images /\ loadingImages' = loadingImages]_vars

C4_Witness ==
  /\ event = "accept"
  /\ history = <<>> /\ catName = <<>> /\ dogName = <<>>
  /\ catArg = <<>> /\ dogArg = <<>> /\ verdict = Null
  /\ loadingImages /\ pc = "save"

\* ------------------------------------------------------------- C5 .. C10
IsRecord(c) == c \notin {NotLoaded, Threw, Null}
Present(img) == img \notin {NullImage, ""}
AllThreePresent(r) == Present(r.judge) /\ Present(r.catDebater) /\ Present(r.dogDebater)
CacheHit == IsRecord(cached) /\ AllThreePresent(cached)
CacheMiss == cached = Null \/ (IsRecord(cached) /\ ~AllThreePresent(cached))

\* C5: when the startup load returned a record with all three images, the
\* generation client was called zero times, the cache was not written, the
\* session images are exactly that record and loading has ended.
C5_FullHitShortCircuits ==
  CacheHit =>
    /\ \A t \in CharacterType : genCalls[t] = 0 /\ gen[t] = "idle"
    /\ saveCalls = 0 /\ saveOutcome = "none"
    /\ db = cached
    /\ images = cached
    /\ ~loadingImages
    /\ pc = "done"

C5_Witness ==
  /\ CacheHit
  /\ images = cached /\ ~loadingImages
  /\ \A t \in CharacterType : genCalls[t] = 0

\* C6: when the startup load returned an absent record or one missing an
\* image, exactly one generation call was issued for each character type.
C6_MissIssuesThreeGenerations ==
  CacheMiss => \A t \in CharacterType : genCalls[t] = 1 /\ gen[t] # "idle"

C6_Witness ==
  /\ IsRecord(cached) /\ Present(cached.judge) /\ ~AllThreePresent(cached)
  /\ \A t \in CharacterType : genCalls[t] = 1
  /\ pc = "done"

\* C7 as stated: all three images are present or loading is in progress.
C7_AsStated ==
  loadingImages \/ AllThreePresent(images)

\* C8: while the session is Judging or a judgment request is in flight, both
\* current argument texts are non-empty, and so are the texts of every
\* request in flight.
C8_NoJudgingWithEmptyArgument ==
  (isJudging \/ requests # <<>>)
    => /\ NonEmpty(catArg) /\ NonEmpty(dogArg)
       /\ \A i \in 1..Len(requests) :
            NonEmpty(requests[i].catArg) /\ NonEmpty(requests[i].dogArg)

C8_Witness ==
  /\ isJudging /\ Len(requests) = 1
  /\ catArg = <<"c">> /\ dogArg = <<" ", "d">>
  /\ requests[1].dogArg = <<" ", "d">>

\* the states startup passes through after a cache miss, cached aside
MissShape ==
  /\ \A t \in CharacterType : genCalls[t] = 1
  /\ pc \in {"generate", "save", "done"}
  /\ pc = "generate"
       => /\ loadingImages /\ images = NoImages /\ saveCalls = 0
          /\ \A t \in CharacterType : gen[t] \in {"pending", "resolved"}
          /\ \E t \in CharacterType : gen[t] = "pending"
  /\ pc = "save"
       => /\ loadingImages /\ images = NewImages /\ saveCalls = 1
          /\ \A t \in CharacterType : gen[t] = "resolved"
  /\ pc = "done"
       => /\ ~loadingImages
          /\ \/ /\ images = NewImages /\ saveCalls = 1
                /\ \A t \in CharacterType : gen[t] = "resolved"
             \/ /\ images = NoImages /\ saveCalls = 0
                /\ \E t \in CharacterType : gen[t] = "rejected"

\* C9: after a storage error of the startup read, startup is in the states
\* of a cache miss: three generation calls issued, one per type, never
\* stopped at the load, and ending as for an absent record; no alert.
C9_ReadErrorIsAMiss ==
  /\ cached \in {Threw, Null} => MissShape
  /\ (cached = Threw /\ alertShown) => event = "judgmentRejected"

C9_Witness ==
  /\ cached = Threw
  /\ pc = "done" /\ images = NewImages /\ ~loadingImages
  /\ db = NewImages

\* C10: after the cache save failed, the three generated images are set,
\* loading has ended and startup is done.
C10_SaveFailureKeepsImages ==
  saveOutcome = "failed"
    => /\ images = NewImages
       /\ AllThreePresent(images)
       /\ ~loadingImages
       /\ pc = "done"

C10_Witness ==
  /\ saveOutcome = "failed"
  /\ images = NewImages /\ ~loadingImages
  /\ db # NewImages

\* ----------------------------------------------------------------- C11
\* the state of a process that has just been (re)loaded
FreshProcess ==
  /\ pc = "load" /\ cached = NotLoaded /\ storeOps = <<"load">>
  /\ images = NoImages /\ loadingImages
  /\ catArg = <<>> /\ dogArg = <<>> /\ catName = <<>> /\ dogName = <<>>
  /\ verdict = Null /\ ~isJudging /\ history = <<>>
  /\ requests = <<>> /\ clears = 0
  /\ \A t \in CharacterType : gen[t] = "idle" /\ genCalls[t] = 0

\* C11: the step in which the cache clear of a confirmed Reset images
\* fails ends with the process reloaded.
C11_FailedClearStillReloads ==
  event = "clearFailed" => FreshProcess

C11_Witness ==
  /\ event = "clearFailed"
  /\ FreshProcess
  /\ db # Null

\* ----------------------------------------------------------------- C12
\* C12 as stated: in a process started by the reload of a Reset images
\* whose clear succeeded, startup issues one generation call per type.
C12_AsStated ==
  (afterReset /\ cached # NotLoaded)
    => \A t \in CharacterType : genCalls[t] = 1

\* ----------------------------------------------------------------- C13
\* C13 as stated: at most one object-store operation is in flight, and a
\* save and a clear are never in flight together.
C13_AsStated ==
  /\ Len(storeOps) <= 1
  /\ ~(\E i, j \in 1..Len(storeOps) : storeOps[i] = "save" /\ storeOps[j] = "clear")

\* ----------------------------------------------------------------- C14
\* C14: the i-th round of history has roundNumber i.
C14_RoundNumbersAreIndices ==
  \A i \in 1..Len(history) : history[i].roundNumber = i

C14_Witness ==
  /\ Len(history) = 2
  /\ history[1].roundNumber = 1 /\ history[2].roundNumber = 2
  /\ event = "appeal"

\* ----------------------------------------------------------------- C15
\* C15: every judgment request in flight carries the current argument
\* texts and the whole current history, in order (the empty sequence when
\* no round has been appealed in this case).
C15_RequestCarriesArgsAndHistory ==
  \A i \in 1..Len(requests) :
    /\ requests[i].catArg = catArg
    /\ requests[i].dogArg = dogArg
    /\ Len(requests[i].history) = Len(history)
    /\ \A k \in 1..Len(history) : requests[i].history[k] = history[k]

C15_Witness ==
  /\ Len(requests) = 1
  /\ Len(requests[1].history) = 2
  /\ requests[1].history[1].verdict # requests[1].history[2].verdict
  /\ requests[1].catArg = <<"c">>

\* ----------------------------------------------------------------- C16
\* C16 as stated: no judgment request is issued while startup image
\* loading is in progress.
C16_AsStated ==
  [][Len(requests') > Len(requests) => ~loadingImages]_vars

\* C16 (amended): Judging is entered only from Ready (not judging, no
\* verdict) and only by a submit that issues one request; loadingImages
\* does not gate it.
C16_JudgingOnlyFromReady ==
  [][(isJudging' /\ ~isJudging)
       => /\ Ready
          /\ event' = "judgeClick"
          /\ Len(requests') = Len(requests) + 1]_vars

C16_Witness ==
  /\ event = "judgeClick"
  /\ Judging
  /\ loadingImages /\ pc = "generate"
  /\ Len(requests) = 1

\* ----------------------------------------------------------------- C17
\* C17: once any generation call of the startup join has rejected, all
\* three session images are absent, no save was issued and the store entry
\* is the one startup read, each type was generated exactly once, loading
\* has ended and startup is done.
C17_JoinIsAllOrNothing ==
  (\E t \in CharacterType : gen[t] = "rejected")
    => /\ images = NoImages
       /\ saveCalls = 0 /\ saveOutcome = "none"
       /\ \A i \in 1..Len(storeOps) : storeOps[i] # "save"
       /\ cached # Threw => db = cached
       /\ \A t \in CharacterType : genCalls[t] = 1
       /\ ~loadingImages
       /\ pc = "done"

C17_Witness ==
  /\ gen["JUDGE"] = "resolved" /\ gen["DOG_DEBATER"] = "resolved"
  /\ gen["CAT_DEBATER"] = "rejected"
  /\ images = NoImages /\ ~loadingImages

\* ----------------------------------------------------------------- C18
C18_FailureStep ==
  /\ Len(requests) = 1 /\ requests' = <<>>
  /\ catArg' = catArg /\ catArg = requests[1].catArg
  /\ dogArg' = dogArg /\ dogArg = requests[1].dogArg
  /\ history' = history /\ history = requests[1].history
  /\ verdict' = Null /\ ~isJudging' /\ alertShown'
  /\ NonEmpty(catArg') /\ NonEmpty(dogArg')

\* C18 as stated: on a failed judgment the arguments, display names and
\* history are those of submit time.
C18_AsStated ==
  [][event' = "judgmentRejected"
       => /\ C18_FailureStep
          /\ OrDefault(catName', DefaultCatName) = requests[1].catName
          /\ OrDefault(dogName', DefaultDogName) = requests[1].dogName]_vars

\* C18 (amended): on a failed judgment exactly one request was in flight
\* and none is issued again; the session returns to Ready with the
\* arguments and history of submit time and the verdict none; the display
\* names are left as the user last set them.
C18_FailureKeepsSubmission ==
  [][event' = "judgmentRejected"
       => /\ C18_FailureStep
          /\ catName' = catName /\ dogName' = dogName]_vars

C18_Witness ==
  /\ event = "judgmentRejected"
  /\ Ready /\ alertShown /\ requests = <<>>
  /\ Len(history) = 1
  /\ catArg = <<"c">> /\ dogArg = <<" ", "d">>
  /\ catName = <<"n">>

\* ----------------------------------------------------------------- C19
\* C19: at most one judgment request is in flight, and one is in flight
\* exactly while the session is Judging.
C19_AtMostOneRequest ==
  /\ Len(requests) <= 1
  /\ isJudging <=> Len(requests) = 1

C19_Witness ==
  /\ isJudging /\ Len(requests) = 1
  /\ NonEmpty(catArg) /\ NonEmpty(dogArg) /\ verdict = Null
  /\ Len(history) = 1

\* ----------------------------------------------------------------- C20
C20_Step ==
  /\ ((isJudging \/ verdict # Null)
        /\ event' \notin {"appeal", "accept", "reload", "clearFailed"})
       => (catArg' = catArg /\ dogArg' = dogArg)
  /\ verdict' # Null
       => /\ judged' # Null
          /\ catArg' = judged'.catArg /\ dogArg' = judged'.dogArg
  /\ (event' = "appeal" /\ verdict # Null)
       => /\ history' # <<>>
          /\ history'[Len(history')].verdict = verdict
          /\ history'[Len(history')].catArg = judged.catArg
          /\ history'[Len(history')].dogArg = judged.dogArg

\* C20: the argument texts do not change while the session is Judging or
\* Verdict-shown; whenever a verdict is shown the current arguments are
\* those of the request that produced it; a round appended to history
\* pairs the verdict with the arguments of the request that produced it.
C20_VerdictMatchesArguments == [][C20_Step]_vars

C20_Witness ==
  /\ event = "appeal"
  /\ Len(history) = 2
  /\ history[2].catArg = <<"c">> /\ history[2].dogArg = <<" ", "d">>
  /\ judged = Null /\ verdict = Null

====
